---- MODULE Spec2Model ----
(***************************************************************************)
(* CDP relay (CDPWebSocketRelay) and the two variants of the browser-side  *)
(* extension (Extension / CDPAdapter, TabShareExtension) of playwright-mcp *)
(* as state machines.                                                      *)
(*                                                                         *)
(* RelaySpec     : the relay server, its two socket slots and the          *)
(*                 server-side WebSocket objects of its connections.       *)
(* ReconnectSpec : the relay when a connection only arrives for a leg      *)
(*                 whose socket is no longer open.                         *)
(* ExtSpec       : the extension's onTabsUpdated invocations, the adapters *)
(*                 they create, chrome.debugger and the uplink sockets.    *)
(* TabsSpec      : ExtSpec with the native events of the two tabs.         *)
(* PumpSpec      : one bridge of the extension and its message pump.       *)
(* ShareLifeSpec : the toolbar variant connecting and tearing down.        *)
(* SharePumpSpec : one connection of the toolbar variant and its pump.     *)
(* ConnectSpec   : the approved triggers of ExtSpec, or ShareLifeSpec,     *)
(*                 whichever variant runs.                                 *)
(* BridgeSpec    : PumpSpec or SharePumpSpec, whichever variant runs.      *)
(* LateSpec      : one forwarded command on a bridge that is torn down     *)
(*                 and followed by a later bridge of the same tab.         *)
(***************************************************************************)
EXTENDS Integers, Sequences, FiniteSets, TLC

\* ---------------------------------------------------------------- bounds
MaxConn == 3        \* connections handed to the relay in one run
MaxWaiters == 2     \* waitForConnection() calls in one run
MaxInv == 2         \* onTabsUpdated invocations that pass the trigger tests
MaxDecoding == 1    \* frames of one socket whose text is being read
MaxPending == 2     \* commands of one adapter awaiting their result

Null == 0
Sockets == 1..MaxConn
Frames == {"f1", "f2"}

\* ---------------------------------------------------------------- relay
kExtensionPath == "/extension"
kBrowserPath == "/browser"
Paths == {kExtensionPath, kBrowserPath, "/other"}
\* what url.searchParams.get('token') can return; NoToken is the null of a
\* missing parameter
NoToken == "<absent>"
Tokens == {"uuid-e", "uuid-b", "wrong", NoToken}

InvalidToken == [code |-> 4001, reason |-> "Invalid token"]
InvalidPath == [code |-> 4001, reason |-> "Invalid path"]
NoExtension == [code |-> 4001, reason |-> "No extension client connected"]
Superseded == [code |-> 1000, reason |-> "New extension connection established"]
PlainClose == [code |-> 1005, reason |-> ""]

VARIABLES
  extensionSocket,   \* _extensionSocket: a socket or Null
  browserSocket,     \* _browserSocket: a socket or Null
  extensionToken,    \* _extensionToken
  browserToken,      \* _browserToken
  listening,         \* _server.listening
  promises,          \* the ManualPromises made by waitForConnection, in order;
                     \* _waiter is the last one
  wsState,           \* per server-side socket: IDLE (not yet connected), OPEN,
                     \* CLOSING_LOCAL (the relay called close), CLOSING_REMOTE
                     \* (the peer's close frame or an error arrived), CLOSED
  wsRole,            \* which handlers the relay installed on the socket
  nconn,             \* connections so far
  lastEv,            \* the connection or message event the relay handled
                     \* last ("other" after any other event)
  sent,              \* the send() calls of the last handler, in order
  closed             \* its close() calls that found the socket OPEN, in order

relayVars == <<extensionSocket, browserSocket, extensionToken, browserToken,
               listening, promises, wsState, wsRole, nconn,
               lastEv, sent, closed>>

\* ------------------------------------------------------------ extension
Tabs == {1, 2}
Invs == 1..MaxInv
\* a runtime message whose sender is no tab: foo.tab is undefined
NoTab == 0
Statuses == {"loading", "complete"}
\* tab.url: none, a page that is not the trigger page, the trigger page
\* without a connectionURL parameter, the trigger page with one
NoUrl == "<absent>"
Urls == {NoUrl, "https://example.com/",
         "https://demo.playwright.dev/mcp.html",
         "https://demo.playwright.dev/mcp.html?connectionURL=ws"}
Actions == {"approve", "deny"}
\* targetInfo of a tab, as Target.getTargetInfo reports it
Targets == {[targetId |-> "T1", browserContextId |-> "B1"],
            [targetId |-> "T2", browserContextId |-> "B2"]}
NoTarget == [targetId |-> "<none>", browserContextId |-> "<none>"]
\* the frames a client sends: JSON objects {id, method?, sessionId?}, and
\* one frame that JSON.parse rejects
Ids == {1, 2}
NoMethod == "<absent>"
Methods == {"Browser.getVersion", "Target.setAutoAttach",
            "Browser.setDownloadBehavior", "Page.navigate", NoMethod}
NoSession == "<absent>"
SessionIds == {NoSession, "s1"}
Malformed == [malformed |-> TRUE]
Msgs == [id : Ids, method : Methods, sessionId : SessionIds] \cup {Malformed}
NativeEvents == {"Page.frameNavigated"}
\* the one-bridge specification: the tab and the invocation it follows
PumpTabs == {1}
PumpInvs == {1}

VARIABLES
  adapters,      \* Extension.adapters: tab -> the adapter stored, or Null
  dbgOwner,      \* chrome.debugger: the invocation whose attach holds the
                 \* tab's debugger session, or Null when none is attached
  tabTarget,     \* the tab's current targetInfo
  ninv,          \* invocations of onTabsUpdated that got past the guards
  invTab,        \* tabId of the invocation
  pc,            \* where the invocation is suspended
  approveSeen,   \* an 'approve' message sent by the invocation's tab arrived
                 \* after the invocation began
  attachRes,     \* how the invocation's chrome.debugger.attach call ended
  adTarget,      \* targetId and browserContextId the invocation captured
  sock,          \* readyState of the WebSocket the invocation created
  detachRes,     \* results of the adapter's chrome.debugger.detach calls
                 \* whose continuation in detach() has not run yet
  extEv,         \* the extension event handled last, when it is a tab
                 \* update, a socket error or close, the rest of a
                 \* detach(), a decoded frame, a command result, a
                 \* native event or a native detach ("other" after
                 \* any other event)
  threw          \* that handler threw, or a promise of it was rejected

lifeVars == <<adapters, dbgOwner, tabTarget, ninv, invTab, pc, approveSeen,
              attachRes,
              adTarget, sock, detachRes, extEv, threw>>

VARIABLES
  decoding,      \* per adapter: how many frames have event.data.text() pending
  pendingCmd,    \* per adapter: commands sent to chrome.debugger whose
                 \* result is pending
  dispatched,    \* the socket.send calls of the last handler, in order
  native,        \* the chrome.debugger.sendCommand calls of the last handler
  attachedSent,  \* per adapter: whether its socket got no, one or more
                 \* synthesized Target.attachedToTarget events so far
  dropped        \* per adapter: a frame that failed to decode was dropped

pumpVars == <<decoding, pendingCmd, dispatched, native, attachedSent, dropped>>
\* what the pump keeps from one handler to the next
pumpState == <<decoding, pendingCmd, attachedSent, dropped>>
\* a handler that neither sends on a socket nor calls chrome.debugger.sendCommand
NoCalls == dispatched' = <<>> /\ native' = <<>>

extVars == <<lifeVars, pumpVars>>

\* ---------------------------------------------- extension, toolbar variant
MaxShare == 2       \* connectTab calls in one run
MaxCleanups == 2    \* cleanupConnection calls of one entry awaiting detach

Conns == 1..MaxShare
\* the tab the toolbar variant is followed on, and the connection whose
\* message pump is followed
ShareTabs == {1}
PumpConns == {1}

VARIABLES
  activeConnections, \* tab -> the connection stored, or Null
  debuggerOf,        \* chrome.debugger: the connectTab call whose attach
                     \* holds the tab's debugger session, or Null
  tabGone,           \* the tab was removed
  nshare,            \* connectTab calls so far
  connTab,           \* tabId of the call
  at,                \* where the call is suspended, or how it ended
  readyState,        \* readyState of the WebSocket the call created
  registered,        \* the connections whose eventListener and
                     \* detachListener chrome.debugger holds
  deleting,          \* per connection: cleanupConnection calls that
                     \* found it in the map and now await
                     \* chrome.debugger.detach
  sharePending,      \* per connection: commands awaiting their result
  shareEv,           \* the handler of the toolbar variant that ran last
  shareSent,         \* its socket.send calls that found the socket OPEN
  shareNative        \* its chrome.debugger.sendCommand calls

shareVars == <<activeConnections, debuggerOf, tabGone, nshare, connTab, at,
               readyState, registered, deleting, sharePending,
               shareEv, shareSent, shareNative>>

vars == <<relayVars, extVars, shareVars>>

\* a browser runs one variant of the extension: the one that asks for
\* consent on the connect page (Extension, CDPAdapter) or the one driven by
\* the toolbar button (TabShareExtension). The one that has handled an event
\* is the one installed
PromptInstalled == ninv > 0
ToolbarInstalled == nshare > 0

\* ws.readyState === WebSocket.OPEN, on a slot that may be null
IsOpen(st, s) == s # Null /\ st[s] = "OPEN"

\* WebSocket.close(code, reason) acts on an OPEN socket only: the states after
\* it, and the close frame it sends
WsClose(st, s) ==
  IF IsOpen(st, s) THEN [st EXCEPT ![s] = "CLOSING_LOCAL"] ELSE st

CloseFrame(st, s, info) ==
  IF IsOpen(st, s)
  THEN <<[sock |-> s, code |-> info.code, reason |-> info.reason]>>
  ELSE <<>>

RelayInit ==
  /\ extensionSocket = Null
  /\ browserSocket = Null
  /\ extensionToken = "uuid-e"
  /\ browserToken = "uuid-b"
  /\ listening = FALSE
  /\ promises = <<>>
  /\ wsState = [s \in Sockets |-> "IDLE"]
  /\ wsRole = [s \in Sockets |-> "none"]
  /\ nconn = 0
  /\ lastEv = [type |-> "other"]
  /\ sent = <<>>
  /\ closed = <<>>


\* variant: either role's token opens either path
TokenMatches_AnyRole(path, token) ==
  /\ path \in {kExtensionPath, kBrowserPath}
  /\ token \in {extensionToken, browserToken}

\* _onConnection's test of the token against the token of the path
TokenMatches(path, token) ==
  \/ path = kExtensionPath /\ token = extensionToken
  \/ path = kBrowserPath /\ token = browserToken

\* ManualPromise.resolve() on _waiter, when there is one
ResolveWaiter(ps) ==
  IF Len(ps) = 0 THEN ps ELSE [ps EXCEPT ![Len(ps)] = "resolved"]

\* variant: the close handler clears the slot whichever socket closed
ExtensionSlotAfterClose_Always(slot, s) == Null

\* the slot after the 'close' handler of extension socket s ran
ExtensionSlotAfterClose(slot, s) == IF slot = s THEN Null ELSE slot

\* the slot after the 'close' handler of browser socket s ran
BrowserSlotAfterClose(slot, s) == Null

\* the socket handleExtensionConnection closes as superseded when connection
\* s arrives: the one recorded before s is
SupersededSocket(s) == extensionSocket

handleExtensionConnection(s) ==
  LET st == [wsState EXCEPT ![s] = "OPEN"]
      old == SupersededSocket(s)
  IN /\ wsState' = WsClose(st, old)
     /\ closed' = CloseFrame(st, old, Superseded)
     /\ extensionSocket' = s
     /\ wsRole' = [wsRole EXCEPT ![s] = "extension"]
     /\ promises' = ResolveWaiter(promises)
     /\ UNCHANGED browserSocket

handleBrowserConnection(s) ==
  /\ wsState' = [wsState EXCEPT ![s] = "OPEN"]
  /\ closed' = <<>>
  /\ browserSocket' = s
  /\ wsRole' = [wsRole EXCEPT ![s] = "browser"]
  /\ UNCHANGED <<extensionSocket, promises>>

\* ws.close(4001, reason) on the connection just handed to _onConnection
RejectConnection(s, info) ==
  LET st == [wsState EXCEPT ![s] = "OPEN"]
  IN /\ wsState' = WsClose(st, s)
     /\ closed' = CloseFrame(st, s, info)
     /\ UNCHANGED <<wsRole, extensionSocket, browserSocket, promises>>

\* wss.on('connection'): connection number nconn + 1 arrives
_onConnection(path, token) ==
  /\ listening
  /\ nconn < MaxConn
  /\ LET s == nconn + 1 IN
     /\ nconn' = s
     /\ lastEv' = [type |-> "connection", sock |-> s, path |-> path,
                   token |-> token]
     /\ IF path = kExtensionPath
        THEN IF ~TokenMatches(path, token)
             THEN RejectConnection(s, InvalidToken)
             ELSE handleExtensionConnection(s)
        ELSE IF path = kBrowserPath
        THEN IF ~TokenMatches(path, token)
             THEN RejectConnection(s, InvalidToken)
             ELSE handleBrowserConnection(s)
        ELSE RejectConnection(s, InvalidPath)
  /\ sent' = <<>>
  /\ UNCHANGED <<extensionToken, browserToken, listening>>
  /\ UNCHANGED <<extVars, shareVars>>

\* the sends of the 'message' handler of browser socket s
BrowserForward(s, f) ==
  IF IsOpen(wsState, extensionSocket)
  THEN <<[to |-> extensionSocket, frame |-> f]>> ELSE <<>>

\* variant: the handler closes the recorded client socket, not the sender
NoExtensionClose_Recorded(s) == browserSocket

\* the socket the 'message' handler of browser socket s closes when no
\* extension socket is open
NoExtensionClose(s) == s

\* variant: the handler re-encodes the frame and loses its content
ExtensionForward_Reencoded(s, f) ==
  IF IsOpen(wsState, browserSocket)
  THEN <<[to |-> browserSocket, frame |-> "f1"]>> ELSE <<>>

\* the sends of the 'message' handler of extension socket s
ExtensionForward(s, f) ==
  IF IsOpen(wsState, browserSocket)
  THEN <<[to |-> browserSocket, frame |-> f]>> ELSE <<>>

\* ws.on('message') of a socket the relay accepted; a socket the relay is
\* closing still delivers the frames its peer sent before the close arrived
OnMessage(s, f) ==
  /\ wsRole[s] \in {"extension", "browser"}
  /\ wsState[s] \in {"OPEN", "CLOSING_LOCAL"}
  /\ lastEv' = [type |-> "message", sock |-> s, frame |-> f]
  /\ IF wsRole[s] = "browser"
     THEN /\ sent' = BrowserForward(s, f)
          /\ IF IsOpen(wsState, extensionSocket)
             THEN /\ closed' = <<>>
                  /\ UNCHANGED wsState
             ELSE /\ wsState' = WsClose(wsState, NoExtensionClose(s))
                  /\ closed' = CloseFrame(wsState, NoExtensionClose(s),
                                          NoExtension)
     ELSE /\ sent' = ExtensionForward(s, f)
          /\ closed' = <<>>
          /\ UNCHANGED wsState
  /\ UNCHANGED <<extensionSocket, browserSocket, extensionToken, browserToken,
                 listening, promises, wsRole, nconn>>
  /\ UNCHANGED <<extVars, shareVars>>

\* the peer's close frame arrives: readyState leaves OPEN, 'close' follows
PeerClose(s) ==
  /\ wsState[s] = "OPEN"
  /\ wsState' = [wsState EXCEPT ![s] = "CLOSING_REMOTE"]
  /\ lastEv' = [type |-> "other"]
  /\ sent' = <<>>
  /\ closed' = <<>>
  /\ UNCHANGED <<extensionSocket, browserSocket, extensionToken, browserToken,
                 listening, promises, wsRole, nconn>>
  /\ UNCHANGED <<extVars, shareVars>>

\* ws.on('error'): both handlers only log; the socket is on its way out
OnError(s) ==
  /\ wsRole[s] \in {"extension", "browser"}
  /\ wsState[s] \in {"OPEN", "CLOSING_LOCAL"}
  /\ wsState' = [wsState EXCEPT ![s] = "CLOSING_REMOTE"]
  /\ lastEv' = [type |-> "other"]
  /\ sent' = <<>>
  /\ closed' = <<>>
  /\ UNCHANGED <<extensionSocket, browserSocket, extensionToken, browserToken,
                 listening, promises, wsRole, nconn>>
  /\ UNCHANGED <<extVars, shareVars>>

\* variant: the 'close' handler of one leg also closes the socket recorded
\* for the other leg
StatesAfterClose_BothLegs(s) ==
  WsClose([wsState EXCEPT ![s] = "CLOSED"],
          IF wsRole[s] = "extension" THEN browserSocket ELSE extensionSocket)

\* readyState of the sockets once 'close' of s has been handled: neither
\* 'close' handler calls close() on any socket
StatesAfterClose(s) == [wsState EXCEPT ![s] = "CLOSED"]

\* ws.on('close')
OnClose(s) ==
  /\ wsState[s] \in {"CLOSING_LOCAL", "CLOSING_REMOTE"}
  /\ wsState' = StatesAfterClose(s)
  /\ lastEv' = [type |-> "other"]
  /\ sent' = <<>>
  /\ closed' = <<>>
  /\ extensionSocket' = IF wsRole[s] = "extension"
                        THEN ExtensionSlotAfterClose(extensionSocket, s)
                        ELSE extensionSocket
  /\ browserSocket' = IF wsRole[s] = "browser"
                      THEN BrowserSlotAfterClose(browserSocket, s)
                      ELSE browserSocket
  /\ UNCHANGED <<extensionToken, browserToken, listening, promises, wsRole,
                 nconn>>
  /\ UNCHANGED <<extVars, shareVars>>

startIfNeeded ==
  /\ ~listening
  /\ listening' = TRUE
  /\ lastEv' = [type |-> "other"]
  /\ sent' = <<>>
  /\ closed' = <<>>
  /\ UNCHANGED <<extensionSocket, browserSocket, extensionToken, browserToken,
                 promises, wsState, wsRole, nconn>>
  /\ UNCHANGED <<extVars, shareVars>>

\* close(): closeAllConnections() leaves upgraded (WebSocket) connections alone
close ==
  /\ listening' = FALSE
  /\ LET st == WsClose(wsState, browserSocket)
     IN /\ wsState' = WsClose(st, extensionSocket)
        /\ closed' = CloseFrame(wsState, browserSocket, PlainClose)
                     \o CloseFrame(st, extensionSocket, PlainClose)
  /\ browserSocket' = Null
  /\ extensionSocket' = Null
  /\ lastEv' = [type |-> "close"]
  /\ sent' = <<>>
  /\ UNCHANGED <<extensionToken, browserToken, promises, wsRole, nconn>>
  /\ UNCHANGED <<extVars, shareVars>>

waitForConnection ==
  /\ Len(promises) < MaxWaiters
  /\ promises' = Append(promises, "pending")
  /\ lastEv' = [type |-> "other"]
  /\ sent' = <<>>
  /\ closed' = <<>>
  /\ UNCHANGED <<extensionSocket, browserSocket, extensionToken, browserToken,
                 listening, wsState, wsRole, nconn>>
  /\ UNCHANGED <<extVars, shareVars>>

RelayNext ==
  \/ \E path \in Paths, token \in Tokens : _onConnection(path, token)
  \/ \E s \in Sockets, f \in Frames : OnMessage(s, f)
  \/ \E s \in Sockets : PeerClose(s)
  \/ \E s \in Sockets : OnError(s)
  \/ \E s \in Sockets : OnClose(s)
  \/ startIfNeeded
  \/ close
  \/ waitForConnection

\* a peer of the role of this path connects only when no socket of the role
\* is open on the relay: it connects for the first time, or it reconnects
\* after its previous connection began to close
LegVacant(path) ==
  \A s \in Sockets :
    (/\ wsState[s] = "OPEN"
     /\ wsRole[s] # "none") =>
      /\ path = kExtensionPath => wsRole[s] # "extension"
      /\ path = kBrowserPath => wsRole[s] # "browser"

\* the relay with peers that reconnect only after disconnecting
ReconnectNext ==
  \/ \E path \in Paths, token \in Tokens :
       LegVacant(path) /\ _onConnection(path, token)
  \/ \E s \in Sockets, f \in Frames : OnMessage(s, f)
  \/ \E s \in Sockets : PeerClose(s)
  \/ \E s \in Sockets : OnError(s)
  \/ \E s \in Sockets : OnClose(s)
  \/ startIfNeeded
  \/ close
  \/ waitForConnection

\* ------------------------------------------------- extension: lifecycle
\* the guards of onTabsUpdated before the adapters.has test
IsTrigger(status, url) ==
  /\ status = "complete"
  /\ url # NoUrl
  /\ url = "https://demo.playwright.dev/mcp.html?connectionURL=ws"

\* the adapters whose constructor ran: their chrome.debugger listeners are
\* registered, and detach() never removes them (it hands removeListener a
\* fresh bind() of the method, which no listener list holds)
Created == {a \in Invs : pc[a] = "bridged"}

\* the adapters whose _onDebuggerDetach runs for a detach event of tab: the
\* listener does not look at the event's source
DetachListeners(tab) == Created

\* variant: the listener does not look at the sender
ApproveMatches_AnySender(i, sender, action) == action = "approve"

\* the test of the consent listener of invocation i
ApproveMatches(i, sender, action) ==
  sender = invTab[i] /\ action = "approve"

ExtInit ==
  /\ adapters = [t \in Tabs |-> Null]
  /\ dbgOwner = [t \in Tabs |-> Null]
  /\ tabTarget = [t \in Tabs |-> [targetId |-> "T1", browserContextId |-> "B1"]]
  /\ ninv = 0
  /\ invTab = [i \in Invs |-> Null]
  /\ pc = [i \in Invs |-> "none"]
  /\ approveSeen = [i \in Invs |-> FALSE]
  /\ attachRes = [i \in Invs |-> "none"]
  /\ adTarget = [i \in Invs |-> NoTarget]
  /\ sock = [i \in Invs |-> "NONE"]
  /\ detachRes = [i \in Invs |-> <<>>]
  /\ extEv = [type |-> "other"]
  /\ threw = FALSE
  /\ decoding = [i \in Invs |-> 0]
  /\ pendingCmd = [i \in Invs |-> {}]
  /\ dispatched = <<>>
  /\ native = <<>>
  /\ attachedSent = [i \in Invs |-> "none"]
  /\ dropped = [i \in Invs |-> FALSE]

\* chrome.tabs.onUpdated: lines 26-38 return early, or the invocation goes
\* on to show prompt.html and to wait for the approval
onTabsUpdated(tab, status, url) ==
  /\ threw' = FALSE
  /\ IF ~IsTrigger(status, url) \/ adapters[tab] # Null
     THEN /\ extEv' = [type |-> "other"]
          /\ UNCHANGED <<ninv, invTab, pc>>
     ELSE /\ ninv < MaxInv
          /\ ninv' = ninv + 1
          /\ invTab' = [invTab EXCEPT ![ninv + 1] = tab]
          /\ pc' = [pc EXCEPT ![ninv + 1] = "awaitApprove"]
          /\ extEv' = [type |-> "tabsUpdated", tab |-> tab, inv |-> ninv + 1]
  /\ UNCHANGED <<adapters, dbgOwner, tabTarget, approveSeen, attachRes, adTarget, sock,
                 detachRes, pumpState, relayVars, shareVars>>
  /\ NoCalls

\* the invocations whose consent listener resolves on this message
Approved(sender, action) ==
  {i \in Invs : /\ pc[i] = "awaitApprove"
                /\ sender # NoTab
                /\ ApproveMatches(i, sender, action)}

\* line 54: chrome.debugger.attach of invocation i, one of the invocations
\* in M that resume on the same message, in the order they began; the call
\* is rejected when a debugger is attached to the tab already
AttachOk(M, i) ==
  /\ dbgOwner[invTab[i]] = Null
  /\ \A j \in M : invTab[j] = invTab[i] => i <= j

\* variant: the outcome of the attach is not looked at
AfterAttach_Ignored(res) == "attached"

\* lines 54-58: where the invocation stands after the attach call; a
\* rejected call ends the invocation
AfterAttach(res) == IF res = "ok" THEN "attached" ELSE "aborted"

\* chrome.runtime.onMessage: every consent listener still registered runs;
\* an invocation whose listener resolves goes on to chrome.debugger.attach
\* at once, and ends there when the attach is rejected
onRuntimeMessage(sender, action) ==
  /\ ninv > 0
  /\ LET M == Approved(sender, action) IN
     /\ attachRes' = [i \in Invs |->
                        IF i \in M
                        THEN IF AttachOk(M, i) THEN "ok" ELSE "rejected"
                        ELSE attachRes[i]]
     /\ pc' = [i \in Invs |->
                 IF i \in M
                 THEN AfterAttach(IF AttachOk(M, i) THEN "ok" ELSE "rejected")
                 ELSE pc[i]]
     /\ dbgOwner' = [t \in Tabs |->
                       IF \E i \in M : invTab[i] = t /\ AttachOk(M, i)
                       THEN CHOOSE i \in M : invTab[i] = t /\ AttachOk(M, i)
                       ELSE dbgOwner[t]]
     /\ threw' = \/ sender = NoTab /\ \E i \in Invs : pc[i] = "awaitApprove"
                 \/ \E i \in M : ~AttachOk(M, i)
  /\ approveSeen' = [i \in Invs |->
                       \/ approveSeen[i]
                       \/ i <= ninv /\ sender = invTab[i] /\ action = "approve"]
  /\ extEv' = [type |-> "other"]
  /\ UNCHANGED <<adapters, tabTarget, ninv, invTab, adTarget, sock,
                 detachRes, pumpState, relayVars, shareVars>>
  /\ NoCalls

\* line 60: Target.getTargetInfo; rejected when the debugger is gone
getTargetInfo(i) ==
  /\ pc[i] = "attached"
  /\ IF dbgOwner[invTab[i]] # Null
     THEN /\ adTarget' = [adTarget EXCEPT ![i] = tabTarget[invTab[i]]]
          /\ pc' = [pc EXCEPT ![i] = "haveInfo"]
          /\ threw' = FALSE
     ELSE /\ pc' = [pc EXCEPT ![i] = "aborted"]
          /\ threw' = TRUE
          /\ UNCHANGED adTarget
  /\ extEv' = [type |-> "other"]
  /\ UNCHANGED <<adapters, dbgOwner, tabTarget, ninv, invTab, approveSeen, attachRes,
                 sock, detachRes, pumpState, relayVars, shareVars>>
  /\ NoCalls

\* lines 61-88: the socket and the adapter are created and wired, and the
\* adapter is stored under the tab
bridge(i) ==
  /\ pc[i] = "haveInfo"
  /\ pc' = [pc EXCEPT ![i] = "bridged"]
  /\ sock' = [sock EXCEPT ![i] = "CONNECTING"]
  /\ adapters' = [adapters EXCEPT ![invTab[i]] = i]
  /\ threw' = FALSE
  /\ extEv' = [type |-> "other"]
  /\ UNCHANGED <<dbgOwner, tabTarget, ninv, invTab, approveSeen, attachRes, adTarget,
                 detachRes, pumpState, relayVars, shareVars>>
  /\ NoCalls

\* socket 'open': the tab is sent to success.html
socketOpen(a) ==
  /\ sock[a] = "CONNECTING"
  /\ sock' = [sock EXCEPT ![a] = "OPEN"]
  /\ threw' = FALSE
  /\ extEv' = [type |-> "other"]
  /\ UNCHANGED <<adapters, dbgOwner, tabTarget, ninv, invTab, pc, approveSeen, attachRes,
                 adTarget, detachRes, pumpState, relayVars, shareVars>>
  /\ NoCalls

\* the outcome of the chrome.debugger.detach call that adapter.detach()
\* starts with: the tab's debugger session is detached, whoever attached it,
\* or the call is rejected because none is attached
DetachOutcome(a) == IF dbgOwner[invTab[a]] # Null THEN "ok" ELSE "rejected"

\* a teardown of the adapter's session has begun: its socket is on its way
\* out, its map entry or its debugger session is gone, or a detach() of it
\* is under way
TeardownBegun(a) ==
  \/ sock[a] \in {"CLOSING", "CLOSED"}
  \/ adapters[invTab[a]] # a
  \/ dbgOwner[invTab[a]] # a
  \/ detachRes[a] # <<>>

\* adapter.detach() up to its await
detachCall(a) ==
  /\ detachRes' = [detachRes EXCEPT ![a] = Append(@, DetachOutcome(a))]
  /\ dbgOwner' = [dbgOwner EXCEPT ![invTab[a]] = Null]

\* socket 'error': the connection has failed, 'close' follows
socketError(a) ==
  /\ sock[a] \in {"CONNECTING", "OPEN"}
  /\ sock' = [sock EXCEPT ![a] = "CLOSING"]
  /\ detachCall(a)
  /\ threw' = FALSE
  /\ extEv' = [type |-> "socketError", inv |-> a,
               detached |-> dbgOwner[invTab[a]], again |-> TeardownBegun(a)]
  /\ UNCHANGED <<adapters, tabTarget, ninv, invTab, pc, approveSeen, attachRes, adTarget,
                 pumpState, relayVars, shareVars>>
  /\ NoCalls

\* socket 'close'
socketClose(a) ==
  /\ sock[a] \in {"OPEN", "CLOSING"}
  /\ sock' = [sock EXCEPT ![a] = "CLOSED"]
  /\ detachCall(a)
  /\ threw' = FALSE
  /\ extEv' = [type |-> "socketClose", inv |-> a,
               detached |-> dbgOwner[invTab[a]], again |-> TeardownBegun(a)]
  /\ UNCHANGED <<adapters, tabTarget, ninv, invTab, pc, approveSeen, attachRes, adTarget,
                 pumpState, relayVars, shareVars>>
  /\ NoCalls

\* adapter.onClose of every adapter in as: the tab's entry is deleted and an
\* OPEN socket is closed
AdaptersAfterOnClose(as) ==
  [t \in Tabs |-> IF \E a \in as : invTab[a] = t THEN Null ELSE adapters[t]]

SockAfterOnClose(as) ==
  [a \in Invs |-> IF a \in as /\ sock[a] = "OPEN" THEN "CLOSING" ELSE sock[a]]

\* detach() after its await: a rejected chrome.debugger.detach rejects
\* detach(); otherwise the removeListener calls and onClose run
detachContinue(a) ==
  /\ detachRes[a] # <<>>
  /\ detachRes' = [detachRes EXCEPT ![a] = Tail(@)]
  /\ IF Head(detachRes[a]) = "ok"
     THEN /\ adapters' = AdaptersAfterOnClose({a})
          /\ sock' = SockAfterOnClose({a})
          /\ threw' = FALSE
     ELSE /\ threw' = TRUE
          /\ UNCHANGED <<adapters, sock>>
  /\ extEv' = [type |-> "detachContinue", inv |-> a,
               entry |-> adapters[invTab[a]]]
  /\ UNCHANGED <<dbgOwner, tabTarget, ninv, invTab, pc, approveSeen, attachRes, adTarget,
                 pumpState, relayVars, shareVars>>
  /\ NoCalls

\* chrome.debugger.onDetach: the browser ended the tab's debugger session
\* (the user cancelled it, the tab closed); the listeners run onClose
onDebuggerDetach(tab) ==
  /\ dbgOwner[tab] # Null
  /\ dbgOwner' = [dbgOwner EXCEPT ![tab] = Null]
  /\ adapters' = AdaptersAfterOnClose(DetachListeners(tab))
  /\ sock' = SockAfterOnClose(DetachListeners(tab))
  /\ threw' = FALSE
  /\ extEv' = [type |-> "debuggerDetach", tab |-> tab]
  /\ UNCHANGED <<tabTarget, ninv, invTab, pc, approveSeen, attachRes, adTarget,
                 detachRes, pumpState, relayVars, shareVars>>
  /\ NoCalls

LifeNext ==
  \/ \E tab \in Tabs, status \in Statuses, url \in Urls :
       /\ ~ToolbarInstalled
       /\ onTabsUpdated(tab, status, url)
  \/ \E sender \in Tabs \cup {NoTab}, action \in Actions :
       onRuntimeMessage(sender, action)
  \/ \E i \in Invs : getTargetInfo(i)
  \/ \E i \in Invs : bridge(i)
  \/ \E a \in Invs : socketOpen(a)
  \/ \E a \in Invs : socketError(a)
  \/ \E a \in Invs : socketClose(a)
  \/ \E a \in Invs : detachContinue(a)
  \/ \E tab \in Tabs : onDebuggerDetach(tab)

\* ------------------------------------------------ extension: message pump
\* JSON.parse succeeds
Decodes(m) == m # Malformed

\* line 120: the reply to Browser.getVersion
VersionReply(m) ==
  [id |-> m.id,
   result |-> {<<"protocolVersion", "1.3">>,
               <<"userAgent", "navigator.userAgent">>,
               <<"product", "Chrome">>}]

\* lines 140, 144: the empty reply
EmptyReply(m) == [id |-> m.id, result |-> {}]

\* lines 124-139: the synthesized Target.attachedToTarget event
AttachedToTarget(target) ==
  [method |-> "Target.attachedToTarget",
   params |-> [sessionId |-> "dummy-session-id",
               targetId |-> target.targetId,
               browserContextId |-> target.browserContextId,
               type |-> "page", attached |-> TRUE,
               waitingForDebugger |-> FALSE]]

\* variant: the reply takes id and sessionId from the command that has
\* been waiting with the smallest id, as if results came back in order
CommandReply_InOrder(c) ==
  LET a == CHOOSE x \in Invs : c \in pendingCmd[x]
      o == CHOOSE x \in pendingCmd[a] : \A y \in pendingCmd[a] : x.id <= y.id
  IN [id |-> o.id, result |-> {<<"result of", c.method>>}, error |-> "null",
      sessionId |-> o.sessionId]

\* lines 151-156: the reply that wraps the result of a forwarded command
CommandReply(c) ==
  [id |-> c.id, result |-> {<<"result of", c.method>>}, error |-> "null",
   sessionId |-> c.sessionId]

\* lines 172-176: a native event as it is sent on
EventFrame(method) ==
  [method |-> method, params |-> [from |-> "chrome.debugger"],
   sessionId |-> "dummy-session-id"]

\* variant: the identity the tab has when the request is handled
EventTarget_Current(a) == tabTarget[invTab[a]]

\* the target the handler of adapter a puts into the synthesized event: the
\* one its invocation captured at line 60
EventTarget(a) == adTarget[a]

\* lines 113-146: the frames onBrowserMessage answers m with by itself
LocalAnswer(a, m) ==
  IF ~Decodes(m) THEN <<>>
  ELSE IF m.method = "Browser.getVersion" THEN <<VersionReply(m)>>
  ELSE IF m.method = "Target.setAutoAttach" /\ m.sessionId = NoSession
  THEN <<AttachedToTarget(EventTarget(a)), EmptyReply(m)>>
  ELSE IF m.method = "Browser.setDownloadBehavior" THEN <<EmptyReply(m)>>
  ELSE <<>>

\* variant: the local answers do not return
IsForwarded_NoReturn(m) == Decodes(m) /\ m.method # NoMethod

\* lines 113-147: m gets as far as chrome.debugger.sendCommand
IsForwarded(m) ==
  /\ Decodes(m)
  /\ m.method # "Browser.getVersion"
  /\ ~(m.method = "Target.setAutoAttach" /\ m.sessionId = NoSession)
  /\ m.method # "Browser.setDownloadBehavior"
  /\ m.method # NoMethod

\* variant: the frames go out whatever the socket's state
Dispatch_Unchecked(a, frames) ==
  [k \in 1..Len(frames) |-> [sock |-> a, frame |-> frames[k]]]

\* adapter.dispatch (lines 63-70): the frames go out if the socket is OPEN
Dispatch(a, frames) ==
  IF sock[a] = "OPEN"
  THEN [k \in 1..Len(frames) |-> [sock |-> a, frame |-> frames[k]]]
  ELSE <<>>

\* the synthesized events among the frames sent
AttachedEvents(sends) ==
  {k \in 1..Len(sends) :
     /\ "method" \in DOMAIN sends[k].frame
     /\ sends[k].frame.method = "Target.attachedToTarget"}

\* the tally of synthesized events of one socket after these sends
AttachedCount(seen, sends) ==
  IF AttachedEvents(sends) = {} THEN seen
  ELSE IF seen = "none" /\ Cardinality(AttachedEvents(sends)) = 1 THEN "once"
  ELSE "more"

\* socket 'message': onBrowserMessage starts and waits for event.data.text();
\* nothing looks at the frame until the text is there
socketMessage(a) ==
  /\ sock[a] = "OPEN"
  /\ decoding[a] < MaxDecoding
  /\ decoding' = [decoding EXCEPT ![a] = @ + 1]
  /\ extEv' = [type |-> "other"]
  /\ threw' = FALSE
  /\ dispatched' = <<>>
  /\ native' = <<>>
  /\ UNCHANGED <<adapters, dbgOwner, tabTarget, ninv, invTab, pc, approveSeen, attachRes,
                 adTarget, sock, detachRes, pendingCmd, attachedSent, dropped,
                 relayVars, shareVars>>

\* the outcome of a chrome.debugger.sendCommand call
CommandOutcomes(a) ==
  IF dbgOwner[invTab[a]] # Null THEN {"ok", "rejected"} ELSE {"rejected"}

\* variant: no try/catch around the decoding
EscapesHandler_Uncaught(m) == ~Decodes(m)

\* lines 111-162: the exception of JSON.parse is caught and logged, so
\* nothing escapes the handler
EscapesHandler(m) == FALSE

\* onBrowserMessage after the text m of a frame arrived (lines 112-162); a
\* client does not reuse the id of a command it still awaits the result of
onBrowserMessage(a, m) ==
  /\ decoding[a] > 0
  /\ decoding' = [decoding EXCEPT ![a] = @ - 1]
  /\ extEv' = [type |-> "browserMessage", inv |-> a, msg |-> m]
  /\ dispatched' = Dispatch(a, LocalAnswer(a, m))
  /\ attachedSent' = [attachedSent EXCEPT ![a] =
                        AttachedCount(@, Dispatch(a, LocalAnswer(a, m)))]
  /\ dropped' = [dropped EXCEPT ![a] = @ \/ ~Decodes(m)]
  /\ IF IsForwarded(m)
     THEN /\ Cardinality(pendingCmd[a]) < MaxPending
          /\ \A c \in pendingCmd[a] : c.id # m.id
          /\ native' = <<[tab |-> invTab[a], method |-> m.method]>>
          /\ \E o \in CommandOutcomes(a) :
               pendingCmd' = [pendingCmd EXCEPT ![a] = @ \cup
                 {[id |-> m.id, method |-> m.method,
                   sessionId |-> m.sessionId, outcome |-> o]}]
     ELSE /\ native' = <<>>
          /\ UNCHANGED pendingCmd
  /\ threw' = EscapesHandler(m)
  /\ UNCHANGED <<adapters, dbgOwner, tabTarget, ninv, invTab, pc, approveSeen, attachRes,
                 adTarget, sock, detachRes, relayVars, shareVars>>

\* the .then of line 149 runs with the command's result; a rejected
\* sendCommand has no handler
commandResult(a, c) ==
  /\ c \in pendingCmd[a]
  /\ pendingCmd' = [pendingCmd EXCEPT ![a] = @ \ {c}]
  /\ extEv' = [type |-> "commandResult", inv |-> a, cmd |-> c]
  /\ dispatched' = IF c.outcome = "ok"
                   THEN Dispatch(a, <<CommandReply(c)>>) ELSE <<>>
  /\ threw' = (c.outcome = "rejected")
  /\ native' = <<>>
  /\ UNCHANGED <<adapters, dbgOwner, tabTarget, ninv, invTab, pc, approveSeen, attachRes,
                 adTarget, sock, detachRes, decoding, attachedSent, dropped,
                 relayVars, shareVars>>

\* the adapters whose _onDebuggerEvent runs for an event of tab: the
\* listener does not look at the event's source
EventListeners(tab) == Created

RECURSIVE DispatchAll(_, _)
DispatchAll(as, frames) ==
  IF as = {} THEN <<>>
  ELSE LET a == CHOOSE x \in as : \A y \in as : x <= y
       IN Dispatch(a, frames) \o DispatchAll(as \ {a}, frames)

\* chrome.debugger.onEvent
onDebuggerEvent(tab, method) ==
  /\ dbgOwner[tab] # Null
  /\ extEv' = [type |-> "debuggerEvent", tab |-> tab, method |-> method]
  /\ dispatched' = DispatchAll(EventListeners(tab), <<EventFrame(method)>>)
  /\ threw' = FALSE
  /\ native' = <<>>
  /\ UNCHANGED <<adapters, dbgOwner, tabTarget, ninv, invTab, pc, approveSeen, attachRes,
                 adTarget, sock, detachRes, decoding, pendingCmd, attachedSent,
                 dropped, relayVars, shareVars>>

\* the tab's page is replaced by another target
targetChange(tab) ==
  /\ \E tg \in Targets \ {tabTarget[tab]} :
       tabTarget' = [tabTarget EXCEPT ![tab] = tg]
  /\ extEv' = [type |-> "other"]
  /\ threw' = FALSE
  /\ UNCHANGED <<adapters, dbgOwner, ninv, invTab, pc, approveSeen, attachRes, adTarget,
                 sock, detachRes, pumpState, relayVars, shareVars>>
  /\ NoCalls

\* one bridge and its message pump
PumpNext ==
  \/ \E tab \in PumpTabs :
       /\ ~ToolbarInstalled
       /\ ninv + 1 \in PumpInvs
       /\ onTabsUpdated(tab, "complete",
            "https://demo.playwright.dev/mcp.html?connectionURL=ws")
  \/ \E sender \in PumpTabs : onRuntimeMessage(sender, "approve")
  \/ \E i \in Invs : getTargetInfo(i)
  \/ \E i \in Invs : bridge(i)
  \/ \E a \in Invs : socketOpen(a)
  \/ \E a \in Invs : socketError(a)
  \/ \E a \in Invs : socketClose(a)
  \/ \E a \in Invs : detachContinue(a)
  \/ \E tab \in PumpTabs : onDebuggerDetach(tab)
  \/ \E tab \in PumpTabs :
       /\ ~ToolbarInstalled
       /\ targetChange(tab)
  \/ \E a \in Invs : socketMessage(a)
  \/ \E a \in Invs, m \in Msgs : onBrowserMessage(a, m)
  \/ \E a \in Invs : \E c \in pendingCmd[a] : commandResult(a, c)
  \/ \E tab \in PumpTabs, method \in NativeEvents : onDebuggerEvent(tab, method)

\* ---------------------------------------------- extension, toolbar variant
ShareInit ==
  /\ activeConnections = [t \in Tabs |-> Null]
  /\ debuggerOf = [t \in Tabs |-> Null]
  /\ tabGone = [t \in Tabs |-> FALSE]
  /\ nshare = 0
  /\ connTab = [c \in Conns |-> Null]
  /\ at = [c \in Conns |-> "none"]
  /\ readyState = [c \in Conns |-> "NONE"]
  /\ registered = {}
  /\ deleting = [c \in Conns |-> 0]
  /\ sharePending = [c \in Conns |-> {}]
  /\ shareEv = [type |-> "other"]
  /\ shareSent = <<>>
  /\ shareNative = <<>>

\* activeConnections.get(tabId)
Entry(tab) == activeConnections[tab]

\* a handler that neither sends on a socket nor calls sendCommand
NoShareCalls == shareSent' = <<>> /\ shareNative' = <<>>

\* socket.send: the browser discards what is sent on a socket that is
\* CLOSING or CLOSED
ShareSend(c, frames) ==
  IF readyState[c] = "OPEN"
  THEN [k \in 1..Len(frames) |-> [sock |-> c, frame |-> frames[k]]]
  ELSE <<>>

\* cleanupConnection up to its await (lines 213-232), called n times in a
\* row with socks and dbg the socket states and debugger sessions it finds:
\* without an entry for the tab it returns; otherwise the entry's listeners
\* are removed, its socket is closed if OPEN, and chrome.debugger.detach is
\* called for the tab, whose rejection is ignored
cleanupConnection(tab, socks, dbg, n) ==
  IF Entry(tab) = Null \/ n = 0
  THEN /\ registered' = registered
       /\ readyState' = socks
       /\ debuggerOf' = dbg
       /\ deleting' = deleting
  ELSE /\ deleting[Entry(tab)] + n <= MaxCleanups
       /\ registered' = registered \ {Entry(tab)}
       /\ readyState' = [socks EXCEPT ![Entry(tab)] =
                           IF @ = "OPEN" THEN "CLOSING" ELSE @]
       /\ debuggerOf' = [dbg EXCEPT ![tab] = Null]
       /\ deleting' = [deleting EXCEPT ![Entry(tab)] = @ + n]

\* cleanupConnection after its await (line 234), in a call that found
\* connection c: the entry of c's tab is deleted, whichever connection it
\* holds by now
cleanupContinue(c) ==
  /\ deleting[c] > 0
  /\ deleting' = [deleting EXCEPT ![c] = @ - 1]
  /\ activeConnections' = [activeConnections EXCEPT ![connTab[c]] = Null]
  /\ shareEv' = [type |-> "cleanupContinue", tab |-> connTab[c], conn |-> c]
  /\ NoShareCalls
  /\ UNCHANGED <<debuggerOf, tabGone, nshare, connTab, at, readyState,
                 registered, sharePending, relayVars, extVars>>

\* chrome.debugger.attach is rejected for a tab that has a debugger session
\* or is gone; chrome.debugger handles the calls of the extension in the
\* order they were made, so the outcome is that of the time of the call
ShareAttachOk(tab) == debuggerOf[tab] = Null /\ ~tabGone[tab]

\* chrome.action.onClicked (lines 28-40): disconnectTab for a tab that has
\* an entry, connectTab up to its attach call (lines 46-52) for one without
onPageActionClicked(tab) ==
  /\ ~tabGone[tab]
  /\ IF Entry(tab) # Null
     THEN /\ cleanupConnection(tab, readyState, debuggerOf, 1)
          /\ shareEv' = [type |-> "click", tab |-> tab, conn |-> Null]
          /\ UNCHANGED <<nshare, connTab, at>>
     ELSE /\ nshare < MaxShare
          /\ nshare' = nshare + 1
          /\ connTab' = [connTab EXCEPT ![nshare + 1] = tab]
          /\ at' = [at EXCEPT ![nshare + 1] =
                      IF ShareAttachOk(tab) THEN "attaching"
                      ELSE "attachRejecting"]
          /\ debuggerOf' = IF ShareAttachOk(tab)
                           THEN [debuggerOf EXCEPT ![tab] = nshare + 1]
                           ELSE debuggerOf
          /\ shareEv' = [type |-> "click", tab |-> tab, conn |-> nshare + 1]
          /\ UNCHANGED <<registered, readyState, deleting>>
  /\ NoShareCalls
  /\ UNCHANGED <<activeConnections, tabGone, sharePending, relayVars, extVars>>

\* connectTab after the attach call (lines 52-59): on to the call of
\* Target.getTargetInfo, which is rejected when the tab has no debugger
\* session any more, or into the catch block (lines 103-105)
attachResult(c) ==
  /\ at[c] \in {"attaching", "attachRejecting"}
  /\ IF at[c] = "attaching"
     THEN /\ at' = [at EXCEPT ![c] =
                      IF debuggerOf[connTab[c]] # Null THEN "info"
                      ELSE "infoRejecting"]
          /\ UNCHANGED <<registered, readyState, debuggerOf, deleting>>
     ELSE /\ at' = [at EXCEPT ![c] = "attachRejected"]
          /\ cleanupConnection(connTab[c], readyState, debuggerOf, 1)
  /\ shareEv' = [type |-> "attachResult", tab |-> connTab[c], conn |-> c]
  /\ NoShareCalls
  /\ UNCHANGED <<activeConnections, tabGone, nshare, connTab, sharePending,
                 relayVars, extVars>>

\* connectTab after Target.getTargetInfo (lines 59-89): the socket is made
\* and the call waits for it to open, or the catch block runs
targetInfoResult(c) ==
  /\ at[c] \in {"info", "infoRejecting"}
  /\ IF at[c] = "info"
     THEN /\ readyState' = [readyState EXCEPT ![c] = "CONNECTING"]
          /\ at' = [at EXCEPT ![c] = "opening"]
          /\ UNCHANGED <<registered, debuggerOf, deleting>>
     ELSE /\ at' = [at EXCEPT ![c] = "infoRejected"]
          /\ cleanupConnection(connTab[c], readyState, debuggerOf, 1)
  /\ shareEv' = [type |-> "targetInfoResult", tab |-> connTab[c], conn |-> c]
  /\ NoShareCalls
  /\ UNCHANGED <<activeConnections, tabGone, nshare, connTab, sharePending,
                 relayVars, extVars>>

ConnectionInfo(c) == [type |-> "connection_info", tabId |-> connTab[c]]

\* socket.onopen (lines 74-85) and, when connectTab still waits, the rest of
\* its try block (lines 91-101): listeners registered, entry stored
onopen(c) ==
  /\ readyState[c] = "CONNECTING"
  /\ readyState' = [readyState EXCEPT ![c] = "OPEN"]
  /\ shareSent' = <<[sock |-> c, frame |-> ConnectionInfo(c)]>>
  /\ shareNative' = <<>>
  /\ IF at[c] = "opening"
     THEN /\ at' = [at EXCEPT ![c] = "connected"]
          /\ registered' = registered \cup {c}
          /\ activeConnections' = [activeConnections EXCEPT ![connTab[c]] = c]
     ELSE UNCHANGED <<at, registered, activeConnections>>
  /\ shareEv' = [type |-> "onopen", tab |-> connTab[c], conn |-> c]
  /\ UNCHANGED <<debuggerOf, tabGone, nshare, connTab, deleting, sharePending,
                 relayVars, extVars>>

\* the timer of line 87 fires while connectTab waits for the socket: the
\* catch block runs (lines 103-105); the socket is left as it is
openTimeout(c) ==
  /\ at[c] = "opening"
  /\ at' = [at EXCEPT ![c] = "openFailed"]
  /\ cleanupConnection(connTab[c], readyState, debuggerOf, 1)
  /\ shareEv' = [type |-> "openTimeout", tab |-> connTab[c], conn |-> c]
  /\ NoShareCalls
  /\ UNCHANGED <<activeConnections, tabGone, nshare, connTab, sharePending,
                 relayVars, extVars>>

\* socket 'error': the connection has failed, 'close' follows. While
\* connectTab waits, onerror is reject (line 86); after setupMessageHandling
\* it is disconnectTab (lines 188-191)
shareSocketError(c) ==
  /\ readyState[c] \in {"CONNECTING", "OPEN"}
  /\ IF at[c] \in {"opening", "connected"}
     THEN cleanupConnection(connTab[c],
            [readyState EXCEPT ![c] = "CLOSING"], debuggerOf, 1)
     ELSE /\ readyState' = [readyState EXCEPT ![c] = "CLOSING"]
          /\ UNCHANGED <<registered, debuggerOf, deleting>>
  /\ at' = [at EXCEPT ![c] = IF @ = "opening" THEN "openFailed" ELSE @]
  /\ shareEv' = [type |-> "socketError", tab |-> connTab[c], conn |-> c]
  /\ NoShareCalls
  /\ UNCHANGED <<activeConnections, tabGone, nshare, connTab, sharePending,
                 relayVars, extVars>>

\* socket 'close': onclose is set by setupMessageHandling (lines 183-186)
shareSocketClose(c) ==
  /\ readyState[c] \in {"OPEN", "CLOSING"}
  /\ IF at[c] = "connected"
     THEN cleanupConnection(connTab[c],
            [readyState EXCEPT ![c] = "CLOSED"], debuggerOf, 1)
     ELSE /\ readyState' = [readyState EXCEPT ![c] = "CLOSED"]
          /\ UNCHANGED <<registered, debuggerOf, deleting>>
  /\ shareEv' = [type |-> "socketClose", tab |-> connTab[c], conn |-> c]
  /\ NoShareCalls
  /\ UNCHANGED <<activeConnections, tabGone, nshare, connTab, at, sharePending,
                 relayVars, extVars>>

\* the connections whose detachListener and eventListener act on an event
\* of tab (lines 155, 169)
ListenersOf(tab) == {c \in registered : connTab[c] = tab}

\* chrome.debugger.onDetach: the browser ended the tab's debugger session;
\* every detachListener of the tab calls disconnectTab (lines 168-173)
detachListener(tab) ==
  /\ debuggerOf[tab] # Null
  /\ cleanupConnection(tab, readyState, [debuggerOf EXCEPT ![tab] = Null],
                       Cardinality(ListenersOf(tab)))
  /\ shareEv' = [type |-> "debuggerDetach", tab |-> tab, conn |-> Entry(tab)]
  /\ NoShareCalls
  /\ UNCHANGED <<activeConnections, tabGone, nshare, connTab, at, sharePending,
                 relayVars, extVars>>

\* chrome.tabs.onRemoved (lines 243-247)
onTabRemoved(tab) ==
  /\ ~tabGone[tab]
  /\ tabGone' = [tabGone EXCEPT ![tab] = TRUE]
  /\ cleanupConnection(tab, readyState, debuggerOf, 1)
  /\ shareEv' = [type |-> "tabRemoved", tab |-> tab, conn |-> Entry(tab)]
  /\ NoShareCalls
  /\ UNCHANGED <<activeConnections, nshare, connTab, at, sharePending,
                 relayVars, extVars>>

\* the outcome of a chrome.debugger.sendCommand call of the connection
ShareOutcomes(c) ==
  IF debuggerOf[connTab[c]] # Null THEN {"ok", "rejected"} ELSE {"rejected"}

\* socket.onmessage up to its await (lines 122-133): a frame that decodes
\* and has a method goes to chrome.debugger.sendCommand; the catch block
\* (lines 148-150) logs what JSON.parse throws. A client does not reuse the
\* id of a command it still awaits the result of
onmessage(c, m) ==
  /\ at[c] = "connected"
  /\ readyState[c] = "OPEN"
  /\ shareEv' = [type |-> "message", tab |-> connTab[c], conn |-> c, msg |-> m]
  /\ shareSent' = <<>>
  /\ IF Decodes(m) /\ m.method # NoMethod
     THEN /\ Cardinality(sharePending[c]) < MaxPending
          /\ \A p \in sharePending[c] : p.id # m.id
          /\ shareNative' = <<[tab |-> connTab[c], method |-> m.method]>>
          /\ \E o \in ShareOutcomes(c) :
               sharePending' = [sharePending EXCEPT ![c] = @ \cup
                 {[id |-> m.id, method |-> m.method,
                   sessionId |-> m.sessionId, outcome |-> o]}]
     ELSE /\ shareNative' = <<>>
          /\ UNCHANGED sharePending
  /\ UNCHANGED <<activeConnections, debuggerOf, tabGone, nshare, connTab, at,
                 readyState, registered, deleting, relayVars, extVars>>

\* lines 136-140: the reply to the command p
ShareReply(p) ==
  [id |-> p.id, result |-> [of |-> p.method], sessionId |-> p.sessionId]

\* socket.onmessage after its await (lines 135-150): a result is sent back
\* with socket.send; a rejection is logged by the catch block
sendCommandResult(c, p) ==
  /\ p \in sharePending[c]
  /\ sharePending' = [sharePending EXCEPT ![c] = @ \ {p}]
  /\ shareEv' = [type |-> "commandResult", tab |-> connTab[c], conn |-> c,
                 cmd |-> p]
  /\ shareSent' = IF p.outcome = "ok" THEN ShareSend(c, <<ShareReply(p)>>)
                  ELSE <<>>
  /\ shareNative' = <<>>
  /\ UNCHANGED <<activeConnections, debuggerOf, tabGone, nshare, connTab, at,
                 readyState, registered, deleting, relayVars, extVars>>

\* lines 156-162: the event as the eventListener sends it
ShareEventFrame(method) ==
  [method |-> method, params |-> [from |-> "chrome.debugger"],
   sessionId |-> "bridge-session-1"]

RECURSIVE ShareSendAll(_, _)
ShareSendAll(cs, frames) ==
  IF cs = {} THEN <<>>
  ELSE LET c == CHOOSE x \in cs : \A y \in cs : x <= y
       IN ShareSend(c, frames) \o ShareSendAll(cs \ {c}, frames)

\* chrome.debugger.onEvent: the eventListeners of the tab send the event on
\* their OPEN sockets (lines 154-166)
eventListener(tab, method) ==
  /\ debuggerOf[tab] # Null
  /\ shareEv' = [type |-> "debuggerEvent", tab |-> tab, conn |-> Entry(tab),
                 method |-> method]
  /\ shareSent' = ShareSendAll(ListenersOf(tab), <<ShareEventFrame(method)>>)
  /\ shareNative' = <<>>
  /\ UNCHANGED <<activeConnections, debuggerOf, tabGone, nshare, connTab, at,
                 readyState, registered, deleting, sharePending,
                 relayVars, extVars>>

\* the toolbar variant: connecting and tearing down, on a tab that is shared
\* before it is removed
ShareLifeNext ==
  \/ \E tab \in ShareTabs :
       /\ ~PromptInstalled
       /\ onPageActionClicked(tab)
  \/ \E c \in Conns : attachResult(c)
  \/ \E c \in Conns : targetInfoResult(c)
  \/ \E c \in Conns : onopen(c)
  \/ \E c \in Conns : openTimeout(c)
  \/ \E c \in Conns : shareSocketError(c)
  \/ \E c \in Conns : shareSocketClose(c)
  \/ \E tab \in ShareTabs : detachListener(tab)
  \/ \E tab \in ShareTabs :
       /\ ToolbarInstalled
       /\ onTabRemoved(tab)
  \/ \E c \in Conns : cleanupContinue(c)
  \/ \E tab \in ShareTabs, method \in NativeEvents : eventListener(tab, method)

\* the toolbar variant: one connection and its message pump
SharePumpNext ==
  \/ \E tab \in ShareTabs :
       /\ ~PromptInstalled
       /\ Entry(tab) # Null \/ nshare + 1 \in PumpConns
       /\ onPageActionClicked(tab)
  \/ \E c \in Conns : attachResult(c)
  \/ \E c \in Conns : targetInfoResult(c)
  \/ \E c \in Conns : onopen(c)
  \/ \E c \in Conns : openTimeout(c)
  \/ \E c \in Conns : shareSocketError(c)
  \/ \E c \in Conns : shareSocketClose(c)
  \/ \E tab \in ShareTabs : detachListener(tab)
  \/ \E tab \in ShareTabs :
       /\ ToolbarInstalled
       /\ onTabRemoved(tab)
  \/ \E c \in Conns : cleanupContinue(c)
  \/ \E c \in Conns, m \in Msgs : onmessage(c, m)
  \/ \E c \in Conns : \E p \in sharePending[c] : sendCommandResult(c, p)
  \/ \E tab \in ShareTabs, method \in NativeEvents : eventListener(tab, method)

\* the lifecycle of the two tabs and the native events of their pages
TabsNext ==
  \/ LifeNext
  \/ \E tab \in Tabs, method \in NativeEvents : onDebuggerEvent(tab, method)

\* ------------------------------------------------------- specifications
Init == RelayInit /\ ExtInit /\ ShareInit
RelaySpec == Init /\ [][RelayNext]_vars
ExtSpec == Init /\ [][LifeNext]_vars
PumpSpec == Init /\ [][PumpNext]_vars
ReconnectSpec == Init /\ [][ReconnectNext]_vars
TabsSpec == Init /\ [][TabsNext]_vars
ShareLifeSpec == Init /\ [][ShareLifeNext]_vars
SharePumpSpec == Init /\ [][SharePumpNext]_vars
\* the lifecycle of the consent variant when every tab update is a trigger
\* and every runtime message an approval
TriggerNext ==
  \/ \E tab \in Tabs :
       /\ ~ToolbarInstalled
       /\ onTabsUpdated(tab, "complete",
            "https://demo.playwright.dev/mcp.html?connectionURL=ws")
  \/ \E sender \in Tabs : onRuntimeMessage(sender, "approve")
  \/ \E i \in Invs : getTargetInfo(i)
  \/ \E i \in Invs : bridge(i)
  \/ \E a \in Invs : socketOpen(a)
  \/ \E a \in Invs : socketError(a)
  \/ \E a \in Invs : socketClose(a)
  \/ \E a \in Invs : detachContinue(a)
  \/ \E tab \in Tabs : onDebuggerDetach(tab)

\* the two successive bridges followed: the invocations, or the connectTab
\* calls, that make them
LateInvs == {1, 2}
LateConns == {1, 2}
\* the frame of the command whose late result is followed
LateMsgs == {[id |-> 1, method |-> "Page.navigate", sessionId |-> NoSession]}

\* successive bridges of one tab, in either variant, and the commands they
\* forward
LateNext ==
  \/ \E tab \in PumpTabs :
       /\ ~ToolbarInstalled
       /\ ninv + 1 \in LateInvs
       /\ onTabsUpdated(tab, "complete",
            "https://demo.playwright.dev/mcp.html?connectionURL=ws")
  \/ \E sender \in PumpTabs : onRuntimeMessage(sender, "approve")
  \/ \E i \in Invs : getTargetInfo(i)
  \/ \E i \in Invs : bridge(i)
  \/ \E a \in Invs : socketOpen(a)
  \/ \E a \in Invs : socketError(a)
  \/ \E a \in Invs : socketClose(a)
  \/ \E a \in Invs : detachContinue(a)
  \/ \E tab \in PumpTabs : onDebuggerDetach(tab)
  \/ \E a \in Invs : socketMessage(a)
  \/ \E a \in Invs, m \in LateMsgs : onBrowserMessage(a, m)
  \/ \E a \in Invs : \E c \in pendingCmd[a] : commandResult(a, c)
  \/ \E tab \in ShareTabs :
       /\ ~PromptInstalled
       /\ Entry(tab) # Null \/ nshare + 1 \in LateConns
       /\ onPageActionClicked(tab)
  \/ \E c \in Conns : attachResult(c)
  \/ \E c \in Conns : targetInfoResult(c)
  \/ \E c \in Conns : onopen(c)
  \/ \E c \in Conns : openTimeout(c)
  \/ \E c \in Conns : shareSocketError(c)
  \/ \E c \in Conns : shareSocketClose(c)
  \/ \E tab \in ShareTabs : detachListener(tab)
  \/ \E c \in Conns : cleanupContinue(c)
  \/ \E c \in Conns, m \in LateMsgs : onmessage(c, m)
  \/ \E c \in Conns : \E p \in sharePending[c] : sendCommandResult(c, p)

\* either variant of the extension
ConnectNext == TriggerNext \/ ShareLifeNext
BridgeNext == PumpNext \/ SharePumpNext
ConnectSpec == Init /\ [][ConnectNext]_vars
BridgeSpec == Init /\ [][BridgeNext]_vars
LateSpec == Init /\ [][LateNext]_vars

\* ------------------------------------------------------- relay: claims
ExtSockets == {s \in Sockets : wsRole[s] = "extension"}
LastAcceptedExt == CHOOSE s \in ExtSockets : \A r \in ExtSockets : r <= s

\* what the claims call a valid connection URL
ValidFor(path, token) ==
  \/ path = "/extension" /\ token = extensionToken
  \/ path = "/browser" /\ token = browserToken

\* C1: a connection with an unknown path, or with a token that is missing or
\* is not the token of its path (the other role's token included), is closed
\* with code 4001, gets no role, and leaves both slots and every other
\* socket's state as they were.
C1_RejectLeavesPairing ==
  [][(nconn' # nconn /\ ~ValidFor(lastEv'.path, lastEv'.token)) =>
       LET s == lastEv'.sock IN
       /\ Len(closed') = 1
       /\ closed'[1].sock = s /\ closed'[1].code = 4001
       /\ wsState'[s] # "OPEN"
       /\ wsRole'[s] = "none"
       /\ extensionSocket' = extensionSocket /\ extensionSocket' # s
       /\ browserSocket' = browserSocket /\ browserSocket' # s
       /\ \A r \in Sockets \ {s} : wsState'[r] = wsState[r]
       /\ sent' = <<>>]_relayVars

\* C1 witness: the extension's token presented on the browser path is turned
\* away while an open pair is recorded.
C1_Witness ==
  /\ lastEv.type = "connection"
  /\ lastEv.path = "/browser" /\ lastEv.token = extensionToken
  /\ IsOpen(wsState, extensionSocket) /\ IsOpen(wsState, browserSocket)
  /\ closed = <<[sock |-> lastEv.sock, code |-> 4001,
                 reason |-> "Invalid token"]>>

\* C2: an accepted extension connection closes an open predecessor as
\* superseded and takes the slot; at any time at most one extension socket is
\* open, an open one is the recorded one, and the recorded one is the most
\* recently accepted one and has not closed.
C2_OneExtension ==
  /\ Cardinality({s \in ExtSockets : wsState[s] = "OPEN"}) <= 1
  /\ \A s \in ExtSockets : wsState[s] = "OPEN" => extensionSocket = s
  /\ extensionSocket # Null =>
       /\ extensionSocket = LastAcceptedExt
       /\ wsState[extensionSocket] # "CLOSED"

C2_Supersede ==
  [][(nconn' # nconn /\ wsRole'[nconn'] = "extension") =>
       /\ extensionSocket' = nconn'
       /\ IsOpen(wsState, extensionSocket) =>
            /\ wsState'[extensionSocket] = "CLOSING_LOCAL"
            /\ closed' = <<[sock |-> extensionSocket, code |-> 1000,
                  reason |-> "New extension connection established"]>>]_relayVars

C2_Superseded == []C2_OneExtension /\ C2_Supersede

\* C2 witness: the superseded socket's close event has arrived and the newer
\* socket is still the recorded, open one.
C2_Witness ==
  \E old \in ExtSockets :
    /\ extensionSocket # Null /\ old < extensionSocket
    /\ wsState[old] = "CLOSED"
    /\ wsState[extensionSocket] = "OPEN"

C4_NoExtensionClose ==
  [][/\ (/\ lastEv'.type = "message"
         /\ wsRole[lastEv'.sock] = "browser"
         /\ ~IsOpen(wsState, extensionSocket)) =>
        LET s == lastEv'.sock IN
        /\ sent' = <<>>
        /\ wsState'[s] = "CLOSING_LOCAL"
        /\ closed' = IF wsState[s] = "OPEN"
                     THEN <<[sock |-> s, code |-> 4001,
                             reason |-> "No extension client connected"]>>
                     ELSE <<>>
        /\ \A r \in Sockets \ {s} : wsState'[r] = wsState[r]
     /\ lastEv'.type = "connection" => sent' = <<>>]_relayVars

\* C4 witness: a client frame met an empty extension slot and the client
\* socket was closed for it.
C4_Witness ==
  /\ lastEv.type = "message"
  /\ wsRole[lastEv.sock] = "browser"
  /\ extensionSocket = Null
  /\ sent = <<>>
  /\ closed = <<[sock |-> lastEv.sock, code |-> 4001,
                 reason |-> "No extension client connected"]>>

\* --------------------------------------------------- extension: claims
Started == {i \in Invs : pc[i] # "none"}

\* C5: an invocation gets to chrome.debugger.attach, and a tab gets a
\* debugger session or a map entry, only after an 'approve' message sent by
\* that same tab arrived after the invocation's trigger.
C5_ConsentGate ==
  /\ \A i \in Started : pc[i] # "awaitApprove" => approveSeen[i]
  /\ \A t \in Tabs :
       /\ dbgOwner[t] # Null =>
            invTab[dbgOwner[t]] = t /\ approveSeen[dbgOwner[t]]
       /\ adapters[t] # Null =>
            invTab[adapters[t]] = t /\ approveSeen[adapters[t]]

\* C5 witness: one tab was approved and bridged while the other tab's
\* invocation still waits, unattached and without an entry.
C5_Witness ==
  \E i, j \in Started :
    /\ invTab[i] # invTab[j]
    /\ pc[i] = "bridged" /\ approveSeen[i]
    /\ pc[j] = "awaitApprove" /\ ~approveSeen[j]
    /\ dbgOwner[invTab[j]] = Null /\ adapters[invTab[j]] = Null

\* C6 (as claimed): no tab ever has two open uplink sockets.
C6_OneSessionPerTab ==
  \A t \in Tabs :
    Cardinality({a \in Invs : invTab[a] = t /\ sock[a] = "OPEN"}) <= 1

\* nothing of any teardown is still under way
Quiescent ==
  \A b \in Invs : detachRes[b] = <<>> /\ sock[b] \notin {"CONNECTING", "CLOSING"}

\* C7 (as claimed): once a teardown of a bridged session has begun and
\* nothing is under way any more, its socket is closed, the debugger session
\* it attached is gone and the map does not hold it.
C7_TeardownComplete ==
  \A a \in Created :
    (Quiescent /\ TeardownBegun(a)) =>
      /\ sock[a] = "CLOSED"
      /\ dbgOwner[invTab[a]] # a
      /\ adapters[invTab[a]] # a

\* C8 (as claimed): a socket error or close that arrives when the teardown
\* of its session has begun already starts a detach() that is not rejected,
\* and detaches no debugger session attached by another invocation.
C8_TeardownIdempotent ==
  (extEv.type \in {"socketError", "socketClose"} /\ extEv.again) =>
    /\ detachRes[extEv.inv] # <<>> =>
         detachRes[extEv.inv][Len(detachRes[extEv.inv])] # "rejected"
    /\ extEv.detached \in {Null, extEv.inv}

\* ------------------------------------------------- claims on the message pump
\* the step just taken is onBrowserMessage handling a decoded request of
\* the given method
Handled(method) ==
  /\ extEv.type = "browserMessage"
  /\ Decodes(extEv.msg)
  /\ extEv.msg.method = method

\* what the socket of the handling adapter got in that step
OnSocket(frames) ==
  dispatched = [k \in 1..Len(frames) |-> [sock |-> extEv.inv, frame |-> frames[k]]]

\* the attached-to-target event with the identity invocation a captured
CapturedEvent(a) ==
  [method |-> "Target.attachedToTarget",
   params |-> [sessionId |-> "dummy-session-id",
               targetId |-> adTarget[a].targetId,
               browserContextId |-> adTarget[a].browserContextId,
               type |-> "page", attached |-> TRUE,
               waitingForDebugger |-> FALSE]]

\* the command the native debugger gets for the request just handled
ForwardedCommand ==
  <<[tab |-> invTab[extEv.inv], method |-> extEv.msg.method]>>

\* C9, as stated: every Target.setAutoAttach request without a sessionId
\* puts on the socket the synthesized Target.attachedToTarget event (the
\* placeholder session id, the target id and browser-context id captured at
\* attach time) and then the reply {id, result: {}}, and issues no native
\* command; one with a sessionId is forwarded to the native debugger.
C9_AutoAttachAlways ==
  Handled("Target.setAutoAttach") =>
    IF extEv.msg.sessionId = NoSession
    THEN /\ native = <<>>
         /\ OnSocket(<<CapturedEvent(extEv.inv),
                       [id |-> extEv.msg.id, result |-> {}]>>)
    ELSE /\ native = ForwardedCommand
         /\ dispatched = <<>>

\* C9, amended: the event and the reply go out, in that order, when the
\* socket is still OPEN at the time the request has been decoded; when it is
\* not, nothing is sent. In both cases no native command is issued, and a
\* request with a sessionId is forwarded to the native debugger.
C9_AutoAttach ==
  Handled("Target.setAutoAttach") =>
    IF extEv.msg.sessionId = NoSession
    THEN /\ native = <<>>
         /\ IF sock[extEv.inv] = "OPEN"
            THEN OnSocket(<<CapturedEvent(extEv.inv),
                            [id |-> extEv.msg.id, result |-> {}]>>)
            ELSE dispatched = <<>>
    ELSE /\ native = ForwardedCommand
         /\ dispatched = <<>>

\* a request without sessionId answered on an open socket after the tab's
\* target changed since the capture
C9_Witness ==
  /\ Handled("Target.setAutoAttach")
  /\ extEv.msg.sessionId = NoSession
  /\ sock[extEv.inv] = "OPEN"
  /\ Len(dispatched) = 2
  /\ tabTarget[invTab[extEv.inv]] # adTarget[extEv.inv]

\* C10, as stated: Browser.getVersion and Browser.setDownloadBehavior are
\* each answered with exactly one reply echoing the request id
\* (protocolVersion '1.3', respectively an empty result) and no native
\* command is issued for them, whatever else is outstanding.
C10_LocalAnswersAlways ==
  /\ Handled("Browser.getVersion") =>
       /\ native = <<>>
       /\ Len(dispatched) = 1
       /\ dispatched[1].sock = extEv.inv
       /\ dispatched[1].frame.id = extEv.msg.id
       /\ <<"protocolVersion", "1.3">> \in dispatched[1].frame.result
  /\ Handled("Browser.setDownloadBehavior") =>
       /\ native = <<>>
       /\ OnSocket(<<[id |-> extEv.msg.id, result |-> {}]>>)

\* C10, amended: the one reply goes out when the socket is still OPEN at the
\* time the request has been decoded, and nothing is sent when it is not; in
\* both cases no native command is issued.
C10_LocalAnswers ==
  /\ Handled("Browser.getVersion") =>
       /\ native = <<>>
       /\ IF sock[extEv.inv] = "OPEN"
          THEN /\ Len(dispatched) = 1
               /\ dispatched[1].sock = extEv.inv
               /\ dispatched[1].frame.id = extEv.msg.id
               /\ <<"protocolVersion", "1.3">> \in dispatched[1].frame.result
          ELSE dispatched = <<>>
  /\ Handled("Browser.setDownloadBehavior") =>
       /\ native = <<>>
       /\ IF sock[extEv.inv] = "OPEN"
          THEN OnSocket(<<[id |-> extEv.msg.id, result |-> {}]>>)
          ELSE dispatched = <<>>

\* a version query answered on an open socket while a forwarded command
\* still awaits its result
C10_Witness ==
  /\ Handled("Browser.getVersion")
  /\ sock[extEv.inv] = "OPEN"
  /\ Len(dispatched) = 1
  /\ pendingCmd[extEv.inv] # {}

\* the placeholder session id of a frame: params.sessionId of the
\* synthesized event, sessionId of a forwarded native event
Placeholder(frame) ==
  IF frame.method = "Target.attachedToTarget"
  THEN frame.params.sessionId ELSE frame.sessionId

\* C11 (as claimed): on no socket does the synthesized attached-to-target
\* event go out more than once, and every native event sent on carries the
\* session id 'dummy-session-id' that the synthesized event carries.
C11_AttachedOnce ==
  /\ \A a \in Invs : attachedSent[a] # "more"
  /\ \A k \in 1..Len(dispatched) :
       "method" \in DOMAIN dispatched[k].frame =>
         Placeholder(dispatched[k].frame) = "dummy-session-id"

\* the step just taken is the .then of a forwarded command whose native
\* call succeeded
Completed == extEv.type = "commandResult" /\ extEv.cmd.outcome = "ok"

\* the same step of the toolbar variant (part_002 lines 135-147)
ShareCompleted == shareEv.type = "commandResult" /\ shareEv.cmd.outcome = "ok"

\* C12: when the native result of a forwarded command arrives, in whatever
\* order relative to the other outstanding commands, at most one frame is
\* sent, it carries the id and the sessionId of the request that issued the
\* call and that call's result, and the command is outstanding no longer, so
\* that no second reply to it can follow; in either variant of the extension.
C12_ReplyMatchesRequest ==
  /\ Completed =>
       /\ Len(dispatched) <= 1
       /\ \A k \in 1..Len(dispatched) :
            /\ dispatched[k].sock = extEv.inv
            /\ dispatched[k].frame.id = extEv.cmd.id
            /\ dispatched[k].frame.sessionId = extEv.cmd.sessionId
            /\ dispatched[k].frame.result = {<<"result of", extEv.cmd.method>>}
       /\ extEv.cmd \notin pendingCmd[extEv.inv]
       /\ native = <<>>
  /\ ShareCompleted =>
       /\ Len(shareSent) <= 1
       /\ \A k \in 1..Len(shareSent) :
            /\ shareSent[k].sock = shareEv.conn
            /\ shareSent[k].frame.id = shareEv.cmd.id
            /\ shareSent[k].frame.sessionId = shareEv.cmd.sessionId
            /\ shareSent[k].frame.result = [of |-> shareEv.cmd.method]
       /\ shareEv.cmd \notin sharePending[shareEv.conn]
       /\ shareNative = <<>>

\* a result arrived out of order: the reply went out for the younger of two
\* outstanding commands, which differ in id, method and sessionId
C12_Witness ==
  /\ Completed
  /\ Len(dispatched) = 1
  /\ \E o \in pendingCmd[extEv.inv] :
       /\ o.id < extEv.cmd.id
       /\ o.sessionId # extEv.cmd.sessionId
       /\ o.method # extEv.cmd.method

\* the step taken is onBrowserMessage with a frame that failed to decode
DropStep ==
  extEv'.type = "browserMessage" /\ ~Decodes(extEv'.msg)

\* the same step of the toolbar variant (part_002 lines 122-150)
ShareDropStep ==
  shareEv'.type = "message" /\ ~Decodes(shareEv'.msg)

\* C13: a frame that fails to decode calls nothing on the native debugger,
\* sends nothing, raises nothing out of the handler and leaves the socket,
\* the session map, the debugger sessions and the outstanding commands as
\* they were; a valid frame handled on a socket that dropped a malformed
\* frame before gets its local answer, or is forwarded, as any other. In the
\* toolbar variant every valid frame with a method that is handled is
\* forwarded, whatever was dropped before.
C13_MalformedDropped ==
  /\ [][DropStep =>
          /\ native' = <<>> /\ dispatched' = <<>> /\ ~threw'
          /\ sock' = sock /\ adapters' = adapters /\ dbgOwner' = dbgOwner
          /\ pendingCmd' = pendingCmd /\ pc' = pc]_vars
  /\ [](\A a \in Invs :
          (dropped[a] /\ extEv.type = "browserMessage" /\ extEv.inv = a
             /\ Decodes(extEv.msg)) =>
            LET m == extEv.msg
                local == \/ m.method \in {"Browser.getVersion",
                                          "Browser.setDownloadBehavior"}
                         \/ /\ m.method = "Target.setAutoAttach"
                            /\ m.sessionId = NoSession
            IN /\ local =>
                    /\ native = <<>>
                    /\ sock[a] = "OPEN" =>
                         /\ dispatched # <<>>
                         /\ dispatched[Len(dispatched)].frame.id = m.id
               /\ (~local /\ m.method # NoMethod) =>
                    /\ native = <<[tab |-> invTab[a], method |-> m.method]>>
                    /\ dispatched = <<>>
                    /\ \E c \in pendingCmd[a] : c.id = m.id)
  /\ [][ShareDropStep =>
          /\ shareNative' = <<>> /\ shareSent' = <<>>
          /\ readyState' = readyState
          /\ activeConnections' = activeConnections
          /\ debuggerOf' = debuggerOf /\ registered' = registered
          /\ sharePending' = sharePending /\ at' = at]_vars
  /\ []((shareEv.type = "message" /\ Decodes(shareEv.msg)
           /\ shareEv.msg.method # NoMethod) =>
          /\ shareNative = <<[tab |-> shareEv.tab,
                              method |-> shareEv.msg.method]>>
          /\ \E p \in sharePending[shareEv.conn] : p.id = shareEv.msg.id)

\* a version query answered on an open, still registered bridge that has
\* dropped a malformed frame before
C13_Witness ==
  /\ Handled("Browser.getVersion")
  /\ dropped[extEv.inv]
  /\ sock[extEv.inv] = "OPEN"
  /\ adapters[invTab[extEv.inv]] = extEv.inv
  /\ Len(dispatched) = 1

\* ------------------------------------------------ claims on the relay, II
\* the step taken accepts an extension connection
AcceptsExtension ==
  /\ nconn' # nconn
  /\ lastEv'.type = "connection"
  /\ wsRole'[lastEv'.sock] = "extension"

\* C14 (as claimed): once an extension connection is accepted, no future
\* obtained from waitForConnection() before it is pending any longer, and a
\* future is resolved only when an extension connection has been accepted.
C14_WaiterResolved ==
  /\ [][AcceptsExtension =>
          \A k \in 1..Len(promises') : promises'[k] = "resolved"]_relayVars
  /\ []((\E k \in 1..Len(promises) : promises[k] = "resolved") =>
          \E s \in Sockets : wsRole[s] = "extension")

\* the sockets the relay accepted in one of the two roles
Accepted == {s \in Sockets : wsRole[s] \in {"extension", "browser"}}

\* C15 (as claimed): after close() the server does not listen, both slots
\* are empty and no accepted extension or client socket is left open; a
\* close() that follows a close() changes nothing of the relay and closes
\* nothing.
C15_CloseIdempotent ==
  /\ [](lastEv.type = "close" =>
          /\ ~listening
          /\ extensionSocket = Null /\ browserSocket = Null
          /\ \A s \in Accepted : wsState[s] # "OPEN")
  /\ [][(lastEv.type = "close" /\ lastEv'.type = "close") =>
          /\ closed' = <<>>
          /\ UNCHANGED <<extensionSocket, browserSocket, extensionToken,
                         browserToken, listening, promises, wsState,
                         wsRole>>]_relayVars

\* the client sockets the relay accepted, and the one accepted last
ClientSockets == {s \in Sockets : wsRole[s] = "browser"}
LastAcceptedClient == CHOOSE s \in ClientSockets : \A r \in ClientSockets : r <= s

\* each role's newest socket is open and every older socket of the role has
\* disconnected for good
Reconnected ==
  /\ ExtSockets # {} /\ ClientSockets # {}
  /\ wsState[LastAcceptedExt] = "OPEN"
  /\ wsState[LastAcceptedClient] = "OPEN"
  /\ \A s \in (ExtSockets \cup ClientSockets)
                \ {LastAcceptedExt, LastAcceptedClient} : wsState[s] = "CLOSED"

\* no step changes a token
TokensStable ==
  [][extensionToken' = extensionToken /\ browserToken' = browserToken]_relayVars

\* a connection that presents a role's path and token takes the role's slot
AcceptedIntoRole ==
  (lastEv.type = "connection" /\ ValidFor(lastEv.path, lastEv.token)) =>
    /\ wsState[lastEv.sock] = "OPEN"
    /\ lastEv.path = "/extension" => extensionSocket = lastEv.sock
    /\ lastEv.path = "/browser" => browserSocket = lastEv.sock

\* a frame of the newest socket of either role goes to the newest socket of
\* the other role
FramesFlow ==
  (lastEv.type = "message" /\ Reconnected) =>
    /\ lastEv.sock = LastAcceptedExt =>
         sent = <<[to |-> LastAcceptedClient, frame |-> lastEv.frame]>>
    /\ lastEv.sock = LastAcceptedClient =>
         sent = <<[to |-> LastAcceptedExt, frame |-> lastEv.frame]>>

\* C16 (as claimed): the tokens never change, a connection with a role's
\* path and token is accepted into the role after any disconnects, and
\* frames then flow between the current extension socket and the current
\* client socket.
C16_Reconnect == TokensStable /\ []AcceptedIntoRole /\ []FramesFlow

\* the step taken is a transport event of socket s: its peer's close frame,
\* an error, or its 'close'
TransportStep(s) == lastEv'.type = "other" /\ wsState'[s] # wsState[s]

\* C17: a transport error or close of one socket calls close() on no
\* socket, sends nothing and changes the state of no other socket; when it
\* is an extension socket the client slot stays as it is, and when it is a
\* client socket the extension slot stays as it is.
C17_LegIsolation ==
  [][\A s \in Sockets : TransportStep(s) =>
       /\ closed' = <<>> /\ sent' = <<>>
       /\ \A r \in Sockets \ {s} : wsState'[r] = wsState[r]
       /\ wsRole[s] = "extension" => browserSocket' = browserSocket
       /\ wsRole[s] = "browser" => extensionSocket' = extensionSocket]_relayVars

\* the extension socket has closed and the client is still recorded and
\* open
C17_Witness ==
  /\ lastEv.type = "other"
  /\ extensionSocket = Null
  /\ \E s \in ExtSockets : wsState[s] = "CLOSED"
  /\ browserSocket # Null
  /\ wsState[browserSocket] = "OPEN"

\* ------------------------------------------------ claims on the extension, II
\* the invocations whose chrome.debugger.attach was rejected
Rejected == {i \in Invs : attachRes[i] = "rejected"}

\* the connectTab calls whose chrome.debugger.attach was rejected
ShareRejected == {c \in Conns : at[c] = "attachRejected"}

\* C18: an invocation whose attach was rejected has no uplink socket (so
\* the success page is never shown for it), is not in the adapter map, holds
\* no debugger session and has captured no target; it stays ended, and no
\* invocation's attach outcome ever changes once the call has returned, so
\* attach is called once per approved trigger at most. Likewise a connectTab
\* call whose attach was rejected has no socket, no entry, no listeners and
\* no debugger session, and stays ended.
C18_AttachFailure ==
  /\ [](\A i \in Rejected :
          /\ pc[i] = "aborted"
          /\ sock[i] = "NONE"
          /\ adapters[invTab[i]] # i
          /\ dbgOwner[invTab[i]] # i
          /\ adTarget[i] = NoTarget)
  /\ [][\A i \in Invs :
          attachRes[i] # "none" =>
            /\ attachRes'[i] = attachRes[i]
            /\ pc'[i] # "awaitApprove"]_vars
  /\ [](\A c \in ShareRejected :
          /\ readyState[c] = "NONE"
          /\ activeConnections[connTab[c]] # c
          /\ debuggerOf[connTab[c]] # c
          /\ c \notin registered)
  /\ [][\A c \in ShareRejected : at'[c] = at[c]]_vars

\* the attach of one invocation was rejected because another invocation of
\* the same tab holds the debugger, and that other one is bridged and open
C18_Witness ==
  \E i \in Rejected : \E j \in Invs :
    /\ invTab[j] = invTab[i]
    /\ dbgOwner[invTab[i]] = j
    /\ sock[j] = "OPEN"
    /\ sock[i] = "NONE"

\* C19 (as claimed): when the native call of a forwarded command is over,
\* with a result or with a rejection, and the socket is open, exactly one
\* reply goes out on it; the reply echoes the request's id and sessionId and
\* carries the error when the call was rejected.
C19_EveryCommandAnswered ==
  (extEv.type = "commandResult" /\ sock[extEv.inv] = "OPEN") =>
    /\ Len(dispatched) = 1
    /\ dispatched[1].sock = extEv.inv
    /\ dispatched[1].frame.id = extEv.cmd.id
    /\ dispatched[1].frame.sessionId = extEv.cmd.sessionId
    /\ extEv.cmd.outcome = "rejected" => dispatched[1].frame.error # "null"

\* the adapters bridged for tab, and those bridged for another tab
BridgesOf(tab) == {a \in Created : invTab[a] = tab}
OtherTabs(tab) == {b \in Created : invTab[b] # tab}

\* C20 (as claimed): with two tabs bridged, a native event whose source is
\* one tab is sent only on that tab's socket, and a native detach of one tab
\* leaves the socket and the session entry of the other tab as they were.
C20_TabIsolation ==
  /\ []((extEv.type = "debuggerEvent" /\ BridgesOf(extEv.tab) # {}) =>
          \A k \in 1..Len(dispatched) :
            invTab[dispatched[k].sock] = extEv.tab)
  /\ [][(extEv'.type = "debuggerDetach" /\ BridgesOf(extEv'.tab) # {}) =>
          \A b \in OtherTabs(extEv'.tab) :
            /\ sock'[b] = sock[b]
            /\ adapters'[invTab[b]] = adapters[invTab[b]]]_vars

\* ------------------------------------------------ claims on the extension, III
\* the step just taken handled the outcome of a forwarded command whose
\* socket is no longer open
LateResult == extEv.type = "commandResult" /\ sock[extEv.inv] # "OPEN"
ShareLateResult ==
  shareEv.type = "commandResult" /\ readyState[shareEv.conn] # "OPEN"

NewestClientOpen ==
  ClientSockets # {} /\ wsState[LastAcceptedClient] = "OPEN"

\* C22 (as claimed): while the client connection accepted last is open, it
\* is the recorded client socket, whatever happens to the client sockets
\* accepted before it, and every frame of the recorded extension socket is
\* sent to it.
C22_NewestClientRecorded ==
  /\ NewestClientOpen => browserSocket = LastAcceptedClient
  /\ (/\ NewestClientOpen
      /\ lastEv.type = "message"
      /\ lastEv.sock = extensionSocket) =>
       sent = <<[to |-> LastAcceptedClient, frame |-> lastEv.frame]>>

\* C23 (as claimed): a frame is forwarded only when the socket that
\* delivered it is the recorded socket of its role, so a superseded extension
\* socket and a replaced client socket get nothing forwarded.
C23_OnePairing ==
  (lastEv.type = "message" /\ sent # <<>>) =>
    /\ wsRole[lastEv.sock] = "extension" => lastEv.sock = extensionSocket
    /\ wsRole[lastEv.sock] = "browser" => lastEv.sock = browserSocket

\* ------------------------------------------- claims on the toolbar variant
\* the connectTab calls whose attach succeeded and whose socket then failed
\* to open, by an error or by the timeout
OpenFailed == {c \in Conns : at[c] = "openFailed"}

\* C24 (as claimed): a connectTab call whose socket failed to open leaves
\* nothing behind: it does not hold the tab's debugger session, its socket
\* is neither connecting nor open, and the tab's entry is not its connection.
C24_FailedConnectCleansUp ==
  \A c \in OpenFailed :
    /\ debuggerOf[connTab[c]] # c
    /\ readyState[c] \notin {"CONNECTING", "OPEN"}
    /\ activeConnections[connTab[c]] # c

\* the step deletes an entry of the session map only in the rest of a
\* cleanupConnection call that was started on the connection the entry holds
OwnEntryDeleted ==
  \A tab \in Tabs :
    (activeConnections[tab] # Null /\ activeConnections'[tab] = Null) =>
      /\ shareEv'.type = "cleanupContinue"
      /\ shareEv'.conn = activeConnections[tab]

\* a close or error event of the socket of one connection leaves every
\* other connection as it was: its listeners, its socket, its pending
\* cleanups and the debugger session it holds
OwnSocketTeardown ==
  shareEv'.type \in {"socketClose", "socketError"} =>
    \A d \in Conns \ {shareEv'.conn} :
      /\ d \in registered => d \in registered'
      /\ readyState'[d] = readyState[d]
      /\ deleting'[d] = deleting[d]
      /\ debuggerOf[shareEv'.tab] = d => debuggerOf'[shareEv'.tab] = d

\* a connection whose listeners are registered is in the session map
ListenersHaveEntry == \A c \in registered : Entry(connTab[c]) = c

\* C25 (as claimed): whatever the interleaving of teardowns and connectTab
\* calls on a tab, an entry is deleted only by a teardown of the connection
\* it holds, a socket event of an old connection tears down nothing of a
\* newer one, and no connection is left with listeners but without entry.
C25_TeardownOwnConnection ==
  /\ [][OwnEntryDeleted]_vars
  /\ [][OwnSocketTeardown]_vars
  /\ []ListenersHaveEntry
====
